---- MODULE Spec2Model ----
(***************************************************************************)
(* A model of src/receiver.py: the module-level tables AVAILABLE_TOPICS    *)
(* and AGENT_REGISTRY, main()'s set-up, the two tools subscribe_to_topic   *)
(* and list_topics as the agents' runs invoke them, and the consumer       *)
(* units (ReconnectingTopicConsumer, one per thread) the first one starts. *)
(***************************************************************************)
EXTENDS Naturals, Sequences, FiniteSets, TLC

VARIABLES
    pc,               \* main()'s position
    AGENT_REGISTRY,   \* dict: agent id -> Agent
    AVAILABLE_TOPICS, \* list of topic dicts
    calls,            \* the tool invocations made so far, one frame each
    consumers,        \* the ReconnectingTopicConsumer objects constructed
    threads,          \* consumers whose thread has been started
    units,            \* each started consumer's run-time state
    published         \* the routing keys of the messages published so far

vars == <<pc, AGENT_REGISTRY, AVAILABLE_TOPICS, calls, consumers, threads,
          units, published>>

registryVars == <<pc, AGENT_REGISTRY, AVAILABLE_TOPICS, calls, consumers, threads>>
unitVars == <<units, published>>

-----------------------------------------------------------------------------
(* Bounds *)

\* tool invocations over the two agent runs
MaxCalls == 2
\* messages published to the broker
MaxMsgs == 2
\* connection failures (refused connects and drops) of one unit
MaxDrops == 1

-----------------------------------------------------------------------------
(* Module-level data *)

ConfiguredTopics ==
    << [name |-> "jokes",
        description |-> "A topic for receiving and generating jokes",
        binding_key |-> "jokes.*"],
       [name |-> "poems",
        description |-> "A topic for receiving and generating poems",
        binding_key |-> "poems.*"],
       [name |-> "limericks",
        description |-> "A topic for receiving and generating limericks",
        binding_key |-> "limericks.*"] >>

\* Agent(name=..., instructions=..., tools=agent_tools)
Agent(name) ==
    [name |-> name, tools |-> <<"subscribe_to_topic", "list_topics">>]

\* what the language model driving an agent may pass to the tools
AgentIds == {"poetry_agent", "joking_agent", "ghost_handler"}
TopicNames == {"jokes", "poems", "limericks", "haiku"}

\* text.split(sep) for a one-character sep: the places of sep in text, and
\* the pieces between them
Places(text, sep) == {i \in 1..Len(text) : SubSeq(text, i, i) = sep}

Split(text, sep) ==
    LET at == Places(text, sep)
        \* the k-th place, 0 before the first and Len(text) + 1 after the last
        Place(k) == IF k = 0 THEN 0
                    ELSE IF k > Cardinality(at) THEN Len(text) + 1
                    ELSE CHOOSE p \in at : Cardinality({q \in at : q < p}) = k - 1
    IN  [k \in 1..(Cardinality(at) + 1) |->
            SubSeq(text, Place(k - 1) + 1, Place(k) - 1)]

\* d[key] = value
SetItem(d, key, value) ==
    [k \in DOMAIN d \cup {key} |-> IF k = key THEN value ELSE d[k]]

-----------------------------------------------------------------------------
(* Values a tool returns *)

Str(s) == [kind |-> "str", text |-> s]
None == [kind |-> "None", text |-> ""]
Pending == [kind |-> "pending", text |-> ""]

\* f"Error: Agent {agent_id} not found in registry"
AgentNotFound(agent_id) ==
    Str("Error: Agent " \o agent_id \o " not found in registry")

\* f"Subscribed to {topic_name} for agent {agent_id}"
Subscribed(topic_name, agent_id) ==
    Str("Subscribed to " \o topic_name \o " for agent " \o agent_id)

\* the line built from the wrong field of the topic
TopicLine_BindingKey(t) == t.name \o ": " \o t.binding_key

\* f"{t['name']}: {t['description']}"
TopicLine(t) == t.name \o ": " \o t.description

RECURSIVE Join(_, _)
\* sep.join(lines)
Join(sep, lines) ==
    IF lines = <<>> THEN ""
    ELSE IF Len(lines) = 1 THEN lines[1]
    ELSE lines[1] \o sep \o Join(sep, Tail(lines))

\* "\n".join([... for t in AVAILABLE_TOPICS])
list_topics(topics) ==
    Str(Join("\n", [i \in 1..Len(topics) |-> TopicLine(topics[i])]))

-----------------------------------------------------------------------------
(* subscribe_to_topic, statement by statement *)

\* the registry check left out
AgentRegistered_Unchecked(agent_id, registry) == TRUE

\* agent_id not in AGENT_REGISTRY, negated
AgentRegistered(agent_id, registry) == agent_id \in DOMAIN registry

\* next((t for t in AVAILABLE_TOPICS if t['name'] == topic_name), None):
\* the index of the first match, 0 for None
FindTopic(topics, topic_name) ==
    IF \E i \in 1..Len(topics) : topics[i].name = topic_name
    THEN CHOOSE i \in 1..Len(topics) :
            /\ topics[i].name = topic_name
            /\ \A j \in 1..(i - 1) : topics[j].name # topic_name
    ELSE 0

\* the two positional arguments binding_key and topic_name exchanged
NewConsumer_Swapped(agent_id, topic, topic_name) ==
    [agent_id |-> agent_id,
     binding_key |-> topic_name,
     topic_name |-> topic.binding_key]

\* topic['name'] passed where topic['binding_key'] belongs
NewConsumer_NameAsKey(agent_id, topic, topic_name) ==
    [agent_id |-> agent_id,
     binding_key |-> topic.name,
     topic_name |-> topic_name]

\* ReconnectingTopicConsumer(amqp_url, agent_id, binding_key, topic_name,
\*                           AGENT_REGISTRY) with binding_key = topic['binding_key']
NewConsumer(agent_id, topic, topic_name) ==
    [agent_id |-> agent_id,
     binding_key |-> topic.binding_key,
     topic_name |-> topic_name]

Frame(tool, agent_id, topic_name, prior) ==
    [tool |-> tool, agent_id |-> agent_id, topic_name |-> topic_name,
     line |-> IF tool = "list_topics" THEN 69 ELSE 43,
     topic |-> 0, consumer |-> 0, ret |-> Pending, prior |-> prior]

Done(c) == calls[c].line = 0
Running == pc \in {"run_poetry", "run_joking"}

\* the agent's run asks for a tool call
Invoke(tool, agent_id, topic_name) ==
    /\ Running
    /\ Len(calls) < MaxCalls
    /\ calls' = Append(calls,
                  Frame(tool, agent_id, topic_name,
                        {c \in DOMAIN calls : Done(c)}))
    /\ UNCHANGED <<pc, AGENT_REGISTRY, AVAILABLE_TOPICS, consumers, threads>>
    /\ UNCHANGED unitVars

InvokeSubscribe ==
    \E a \in AgentIds, t \in TopicNames : Invoke("subscribe_to_topic", a, t)

InvokeList == Invoke("list_topics", "", "")

\* lines 43-44
CheckAgent(c) ==
    /\ calls[c].line = 43
    /\ IF AgentRegistered(calls[c].agent_id, AGENT_REGISTRY)
       THEN calls' = [calls EXCEPT ![c].line = 46]
       ELSE calls' = [calls EXCEPT ![c].line = 0,
                                   ![c].ret = AgentNotFound(calls[c].agent_id)]
    /\ UNCHANGED <<pc, AGENT_REGISTRY, AVAILABLE_TOPICS, consumers, threads>>
    /\ UNCHANGED unitVars

\* lines 46-49
LookupTopic(c) ==
    /\ calls[c].line = 46
    /\ LET i == FindTopic(AVAILABLE_TOPICS, calls[c].topic_name)
       IN  IF i = 0
           THEN calls' = [calls EXCEPT ![c].line = 0, ![c].ret = None]
           ELSE calls' = [calls EXCEPT ![c].line = 51, ![c].topic = i]
    /\ UNCHANGED <<pc, AGENT_REGISTRY, AVAILABLE_TOPICS, consumers, threads>>
    /\ UNCHANGED unitVars

\* lines 51-60
Construct(c) ==
    /\ calls[c].line = 51
    /\ consumers' = Append(consumers,
                      NewConsumer(calls[c].agent_id,
                                  AVAILABLE_TOPICS[calls[c].topic],
                                  calls[c].topic_name))
    /\ calls' = [calls EXCEPT ![c].line = 61, ![c].consumer = Len(consumers) + 1]
    /\ UNCHANGED <<pc, AGENT_REGISTRY, AVAILABLE_TOPICS, threads>>
    /\ UNCHANGED unitVars

\* target=consumer.run() in place of target=consumer.run: run() is called
\* where the Thread is built, on the caller's thread
NewThread_Caller(k) == 0

\* threading.Thread(target=consumer.run, daemon=True): the thread that runs
\* consumer k's run() is a new one, numbered as the consumer is (0 is the
\* caller's own thread)
NewThread(k) == k

\* the state of a consumer whose run() has not begun
IdleUnit(thread) ==
    [thread |-> thread, connection_state |-> "idle", bound |-> FALSE,
     queue |-> <<>>, inflight |-> 0, handler |-> "none", live |-> FALSE,
     drops |-> 0,
     invocations |-> [m \in 1..MaxMsgs |-> <<>>],
     acks |-> [m \in 1..MaxMsgs |-> 0],
     rejects |-> [m \in 1..MaxMsgs |-> 0]]

\* line 61: .start()
StartThread(c) ==
    /\ calls[c].line = 61
    /\ threads' = threads \cup {calls[c].consumer}
    /\ units' = SetItem(units, calls[c].consumer,
                        IdleUnit(NewThread(calls[c].consumer)))
    /\ calls' = [calls EXCEPT ![c].line = 63]
    /\ UNCHANGED <<pc, AGENT_REGISTRY, AVAILABLE_TOPICS, consumers, published>>

\* lines 63-64
Return(c) ==
    /\ calls[c].line = 63
    /\ calls' = [calls EXCEPT ![c].line = 0,
                   ![c].ret = Subscribed(calls[c].topic_name, calls[c].agent_id)]
    /\ UNCHANGED <<pc, AGENT_REGISTRY, AVAILABLE_TOPICS, consumers, threads>>
    /\ UNCHANGED unitVars

\* line 69
ListTopics(c) ==
    /\ calls[c].line = 69
    /\ calls' = [calls EXCEPT ![c].line = 0,
                              ![c].ret = list_topics(AVAILABLE_TOPICS)]
    /\ UNCHANGED <<pc, AGENT_REGISTRY, AVAILABLE_TOPICS, consumers, threads>>
    /\ UNCHANGED unitVars

-----------------------------------------------------------------------------
(* main() *)

\* lines 84-89
RegisterPoetry ==
    /\ pc = "start"
    /\ AGENT_REGISTRY' = SetItem(AGENT_REGISTRY, "poetry_agent", Agent("poetry_agent"))
    /\ pc' = "poetry_registered"
    /\ UNCHANGED <<AVAILABLE_TOPICS, calls, consumers, threads>>
    /\ UNCHANGED unitVars

\* lines 91-96, and Runner.run_sync starts at line 98
RegisterJoking ==
    /\ pc = "poetry_registered"
    /\ AGENT_REGISTRY' = SetItem(AGENT_REGISTRY, "joking_agent", Agent("joking_agent"))
    /\ pc' = "run_poetry"
    /\ UNCHANGED <<AVAILABLE_TOPICS, calls, consumers, threads>>
    /\ UNCHANGED unitVars

\* Runner.run_sync returns once its tool calls have: lines 98-106
PoetryRunReturns ==
    /\ pc = "run_poetry"
    /\ \A c \in DOMAIN calls : Done(c)
    /\ pc' = "run_joking"
    /\ UNCHANGED <<AGENT_REGISTRY, AVAILABLE_TOPICS, calls, consumers, threads>>
    /\ UNCHANGED unitVars

\* lines 106-121: threading.Event().wait()
JokingRunReturns ==
    /\ pc = "run_joking"
    /\ \A c \in DOMAIN calls : Done(c)
    /\ pc' = "waiting"
    /\ UNCHANGED <<AGENT_REGISTRY, AVAILABLE_TOPICS, calls, consumers, threads>>
    /\ UNCHANGED unitVars

-----------------------------------------------------------------------------

Init ==
    /\ pc = "start"
    /\ AGENT_REGISTRY = <<>>
    /\ AVAILABLE_TOPICS = ConfiguredTopics
    /\ calls = <<>>
    /\ consumers = <<>>
    /\ threads = {}
    /\ units = <<>>
    /\ published = <<>>

Next ==
    \/ RegisterPoetry
    \/ RegisterJoking
    \/ PoetryRunReturns
    \/ JokingRunReturns
    \/ InvokeSubscribe
    \/ InvokeList
    \/ \E c \in DOMAIN calls : CheckAgent(c)
    \/ \E c \in DOMAIN calls : LookupTopic(c)
    \/ \E c \in DOMAIN calls : Construct(c)
    \/ \E c \in DOMAIN calls : StartThread(c)
    \/ \E c \in DOMAIN calls : Return(c)
    \/ \E c \in DOMAIN calls : ListTopics(c)

Spec == Init /\ [][Next]_vars

-----------------------------------------------------------------------------
(* The broker *)

RECURSIVE MatchSegments(_, _)
\* a binding pattern against a routing key, segment by segment: * is exactly
\* one segment, # is zero or more
MatchSegments(p, k) ==
    IF Len(p) = 0 THEN Len(k) = 0
    ELSE IF p[1] = "#"
         THEN \/ MatchSegments(SubSeq(p, 2, Len(p)), k)
              \/ Len(k) > 0 /\ MatchSegments(p, SubSeq(k, 2, Len(k)))
         ELSE /\ Len(k) > 0
              /\ p[1] = "*" \/ p[1] = k[1]
              /\ MatchSegments(SubSeq(p, 2, Len(p)), SubSeq(k, 2, Len(k)))

Matches(binding_key, routing_key) ==
    MatchSegments(Split(binding_key, "."), Split(routing_key, "."))

\* the routing keys publishers use
RoutingKeys == {"jokes.new", "poems.new", "poems.new.draft"}

-----------------------------------------------------------------------------
(* A consumer unit: ReconnectingTopicConsumer.run() on its thread *)

\* a thread runs one run() at a time: consumer k's run() proceeds unless its
\* thread is still inside an earlier consumer's run()
Scheduled(k) ==
    \A j \in DOMAIN units :
        (j < k /\ units[j].thread = units[k].thread)
        => units[j].connection_state = "stopped"

\* consumer k's own thread is free to take a step of the unit
Active(k) ==
    /\ k \in DOMAIN units
    /\ Scheduled(k)
    /\ units[k].connection_state # "stopped"
    /\ units[k].handler # "running"

Connected(k) == units[k].connection_state = "connected"
Ready(k) == Connected(k) /\ units[k].bound

UnitStep(k, u) ==
    /\ units' = [units EXCEPT ![k] = u]
    /\ UNCHANGED published
    /\ UNCHANGED registryVars

\* Connection Supervisor: the first attempt, or the retry after the backoff
StartConnect(k) ==
    /\ Active(k)
    /\ units[k].connection_state \in {"idle", "disconnected"}
    /\ units[k].inflight = 0
    /\ UnitStep(k, [units[k] EXCEPT !.connection_state = "connecting"])

ConnectSucceeds(k) ==
    /\ Active(k)
    /\ units[k].connection_state = "connecting"
    /\ UnitStep(k, [units[k] EXCEPT !.connection_state = "connected"])

\* the broker refuses or is unreachable
ConnectFails(k) ==
    /\ Active(k)
    /\ units[k].connection_state = "connecting"
    /\ units[k].drops < MaxDrops
    /\ UnitStep(k, [units[k] EXCEPT !.connection_state = "disconnected",
                                    !.drops = @ + 1])

\* Topic Binding Manager: declare the exchange, a fresh exclusive queue, bind
Bind(k) ==
    /\ Active(k)
    /\ Connected(k)
    /\ ~units[k].bound
    /\ UnitStep(k, [units[k] EXCEPT !.bound = TRUE, !.queue = <<>>])

\* the connection drops: the exclusive queue goes with it, and the handle of a
\* delivery in flight is dead
Drop(k) ==
    /\ k \in DOMAIN units
    /\ Connected(k)
    /\ units[k].drops < MaxDrops
    /\ units' = [units EXCEPT ![k] =
                   [units[k] EXCEPT
                      !.connection_state = "disconnected",
                      !.bound = FALSE,
                      !.queue = <<>>,
                      !.live = FALSE,
                      !.drops = @ + 1]]
    /\ UNCHANGED published
    /\ UNCHANGED registryVars

\* a publisher sends a message: the broker puts it on every bound queue whose
\* binding key matches
Publish(routing_key) ==
    /\ Len(published) < MaxMsgs
    /\ units # <<>>
    /\ LET m == Len(published) + 1
       IN  /\ published' = Append(published, routing_key)
           /\ units' = [k \in DOMAIN units |->
                          IF Ready(k) /\ Matches(consumers[k].binding_key, routing_key)
                          THEN [units[k] EXCEPT !.queue = Append(@, m)]
                          ELSE units[k]]
    /\ UNCHANGED registryVars

\* Message Dispatch Loop: take the next message and call the handler the
\* registry holds for this unit's agent_id
Receive(k) ==
    /\ Active(k)
    /\ Ready(k)
    /\ units[k].inflight = 0
    /\ units[k].queue # <<>>
    /\ consumers[k].agent_id \in DOMAIN AGENT_REGISTRY
    /\ LET m == Head(units[k].queue)
       IN  UnitStep(k, [units[k] EXCEPT
                          !.queue = Tail(@),
                          !.inflight = m,
                          !.live = TRUE,
                          !.handler = "running",
                          !.invocations[m] =
                              Append(@, AGENT_REGISTRY[consumers[k].agent_id].name)])

\* handlers that always return, and return without error
ReliableHandlers == {"joking_agent"}

HandlerOutcomes(agent_id) ==
    IF agent_id \in ReliableHandlers THEN {"ok"} ELSE {"ok", "error"}

\* the handler call comes back (a handler that hangs never takes this step)
HandlerReturns(k) ==
    /\ k \in DOMAIN units
    /\ Scheduled(k)
    /\ units[k].handler = "running"
    /\ \E outcome \in HandlerOutcomes(consumers[k].agent_id) :
          UnitStep(k, [units[k] EXCEPT !.handler = outcome])

\* the delivery acknowledged as soon as it is handed to the handler
Ack_OnReceipt(k) ==
    /\ k \in DOMAIN units
    /\ Scheduled(k)
    /\ units[k].handler = "running"
    /\ units[k].live
    /\ units[k].acks[units[k].inflight] = 0
    /\ UnitStep(k, [units[k] EXCEPT !.acks[units[k].inflight] = @ + 1])

\* acknowledge after the handler returned without error
Ack(k) ==
    /\ Active(k)
    /\ units[k].handler = "ok"
    /\ units[k].live
    /\ UnitStep(k, [units[k] EXCEPT
                      !.acks[units[k].inflight] = @ + 1,
                      !.inflight = 0, !.handler = "none", !.live = FALSE])

\* reject, without requeue, after the handler raised
Reject(k) ==
    /\ Active(k)
    /\ units[k].handler = "error"
    /\ units[k].live
    /\ UnitStep(k, [units[k] EXCEPT
                      !.rejects[units[k].inflight] = @ + 1,
                      !.inflight = 0, !.handler = "none", !.live = FALSE])

\* the connection went while the handler ran: nothing is left to settle
Discard(k) ==
    /\ Active(k)
    /\ units[k].handler \in {"ok", "error"}
    /\ ~units[k].live
    /\ UnitStep(k, [units[k] EXCEPT !.inflight = 0, !.handler = "none"])

\* an explicit stop request: close the connection, release the queue
Stop(k) ==
    /\ k \in DOMAIN units
    /\ units[k].connection_state # "stopped"
    /\ units[k].handler # "running"
    /\ UnitStep(k, [units[k] EXCEPT
                      !.connection_state = "stopped",
                      !.bound = FALSE,
                      !.queue = <<>>,
                      !.live = FALSE])

\* the process once main() waits at line 121, each agent having subscribed to
\* the topic of its role: the state the calls
\* subscribe_to_topic("poetry_agent", "poems") and
\* subscribe_to_topic("joking_agent", "jokes") leave behind
Subscribers == <<"poetry_agent", "joking_agent">>
RoleTopics == <<"poems", "jokes">>

SubscribedFrame(c, agent_id, topic_name) ==
    [Frame("subscribe_to_topic", agent_id, topic_name, 1..(c - 1))
       EXCEPT !.line = 0,
              !.topic = FindTopic(ConfiguredTopics, topic_name),
              !.consumer = c,
              !.ret = Subscribed(topic_name, agent_id)]

UnitsInit ==
    /\ pc = "waiting"
    /\ AGENT_REGISTRY =
          [a \in {Subscribers[c] : c \in DOMAIN Subscribers} |-> Agent(a)]
    /\ AVAILABLE_TOPICS = ConfiguredTopics
    /\ calls = [c \in DOMAIN Subscribers |->
                  SubscribedFrame(c, Subscribers[c], RoleTopics[c])]
    /\ consumers =
          [c \in DOMAIN Subscribers |->
             NewConsumer(Subscribers[c],
                         ConfiguredTopics[FindTopic(ConfiguredTopics, RoleTopics[c])],
                         RoleTopics[c])]
    /\ threads = DOMAIN Subscribers
    /\ units = [c \in DOMAIN Subscribers |-> IdleUnit(NewThread(c))]
    /\ published = <<>>

UnitsNext ==
    \/ \E k \in DOMAIN Subscribers : StartConnect(k)
    \/ \E k \in DOMAIN Subscribers : ConnectSucceeds(k)
    \/ \E k \in DOMAIN Subscribers : ConnectFails(k)
    \/ \E k \in DOMAIN Subscribers : Bind(k)
    \/ \E k \in DOMAIN Subscribers : Drop(k)
    \/ \E r \in RoutingKeys : Publish(r)
    \/ \E k \in DOMAIN Subscribers : Receive(k)
    \/ \E k \in DOMAIN Subscribers : HandlerReturns(k)
    \/ \E k \in DOMAIN Subscribers : Ack(k)
    \/ \E k \in DOMAIN Subscribers : Reject(k)
    \/ \E k \in DOMAIN Subscribers : Discard(k)
    \/ \E k \in DOMAIN Subscribers : Stop(k)

\* every unit's own steps are taken when they stay possible; a handler call is
\* sure to return only for the reliable handlers; drops, refusals, publishing
\* and stop requests are the environment's to make or not
UnitsFairness ==
    \A k \in DOMAIN Subscribers :
        /\ WF_vars(StartConnect(k))
        /\ WF_vars(ConnectSucceeds(k))
        /\ WF_vars(Bind(k))
        /\ WF_vars(Receive(k))
        /\ WF_vars(Ack(k))
        /\ WF_vars(Reject(k))
        /\ WF_vars(Discard(k))
        /\ WF_vars(HandlerReturns(k) /\ consumers[k].agent_id \in ReliableHandlers)

UnitsSpec == UnitsInit /\ [][UnitsNext]_vars /\ UnitsFairness

-----------------------------------------------------------------------------
(* Reading a listing back *)

SplitLines(text) == Split(text, "\n")

\* the line is name, then ": ", then description
LineShows(line, name, description) ==
    /\ Len(line) = Len(name) + 2 + Len(description)
    /\ SubSeq(line, 1, Len(name)) = name
    /\ SubSeq(line, Len(name) + 1, Len(name) + 2) = ": "
    /\ SubSeq(line, Len(name) + 3, Len(line)) = description

ListsCatalog(text) ==
    LET ls == SplitLines(text)
    IN  /\ Len(ls) = Len(ConfiguredTopics)
        /\ \A i \in 1..Len(ConfiguredTopics) :
              LineShows(ls[i], ConfiguredTopics[i].name,
                        ConfiguredTopics[i].description)

-----------------------------------------------------------------------------
(* The claims *)

IsSubscribe(c) == calls[c].tool = "subscribe_to_topic"
KnownTopic(t) == \E i \in 1..Len(ConfiguredTopics) : ConfiguredTopics[i].name = t
UnitsFor(h, t) ==
    {k \in threads : consumers[k].agent_id = h /\ consumers[k].topic_name = t}
Stepped(c) == calls'[c] # calls[c]

\* C1 (as the spec states it): when subscribe(h, t) for a registered h and a
\* known t is called again after an earlier subscribe(h, t) has returned its
\* confirmation, the second call returns the confirmation too, constructs no
\* consumer, and exactly one started unit serves (h, t).
C1_SubscribeTwiceOneUnit ==
    \A i, j \in DOMAIN calls :
        ( /\ IsSubscribe(i) /\ IsSubscribe(j)
          /\ i \in calls[j].prior
          /\ calls[i].agent_id = calls[j].agent_id
          /\ calls[i].topic_name = calls[j].topic_name
          /\ calls[i].ret = Subscribed(calls[i].topic_name, calls[i].agent_id)
          /\ Done(j) )
        => /\ calls[j].ret = Subscribed(calls[j].topic_name, calls[j].agent_id)
           /\ calls[j].consumer = 0
           /\ Cardinality(UnitsFor(calls[j].agent_id, calls[j].topic_name)) = 1

UnknownHandlerCall(c) ==
    IsSubscribe(c) /\ calls[c].agent_id \notin DOMAIN AGENT_REGISTRY

\* C2: a subscribe call whose handler id is not in the registry, whatever its
\* topic, ends at its first step with the "not found in registry" error text
\* as its result; no step of it constructs or starts a consumer, and the
\* registry and the catalog are as they were.
C2_UnknownHandler ==
    [][\A c \in DOMAIN calls :
          (UnknownHandlerCall(c) /\ Stepped(c))
          => /\ calls'[c].line = 0
             /\ calls'[c].ret = Str("Error: Agent " \o calls[c].agent_id
                                     \o " not found in registry")
             /\ calls'[c].consumer = 0
             /\ UNCHANGED <<consumers, threads, AGENT_REGISTRY, AVAILABLE_TOPICS>>]_vars

C2_Witness ==
    \E c, d \in DOMAIN calls :
        /\ UnknownHandlerCall(c) /\ Done(c) /\ KnownTopic(calls[c].topic_name)
        /\ UnknownHandlerCall(d) /\ Done(d) /\ ~KnownTopic(calls[d].topic_name)

\* C3 (as the spec states it): a finished subscribe call with a registered
\* handler and a topic name that is not in the catalog has an error text as
\* its result, and has constructed no consumer.
C3_UnknownTopicErrorText ==
    \A c \in DOMAIN calls :
        ( /\ IsSubscribe(c) /\ Done(c)
          /\ calls[c].agent_id \in DOMAIN AGENT_REGISTRY
          /\ ~KnownTopic(calls[c].topic_name) )
        => /\ calls[c].ret.kind = "str"
           /\ calls[c].ret.text # ""
           /\ calls[c].consumer = 0

\* C4: every finished list_topics call has returned one line per configured
\* topic, in the configured order, each showing the topic's name and
\* description, whatever subscribe calls came before; and the step of a
\* list_topics call changes neither the consumers, the threads, the registry
\* nor the catalog.
C4_Listing ==
    /\ [](\A c \in DOMAIN calls :
            (calls[c].tool = "list_topics" /\ Done(c))
            => /\ calls[c].ret.kind = "str"
               /\ ListsCatalog(calls[c].ret.text))
    /\ [][\A c \in DOMAIN calls :
            (calls[c].tool = "list_topics" /\ Stepped(c))
            => UNCHANGED <<consumers, threads, AGENT_REGISTRY, AVAILABLE_TOPICS,
                           units>>]_vars

C4_Witness ==
    \E c, d \in DOMAIN calls :
        /\ calls[c].tool = "list_topics" /\ Done(c)
        /\ IsSubscribe(d) /\ Done(d) /\ calls[d].consumer \in threads
        /\ d \in calls[c].prior

\* the Subscription Registry's table of the spec: handler identity -> its
\* active subscriptions (topic name -> consumer)
Recorded(registry, h, t) ==
    /\ h \in DOMAIN registry
    /\ "subscriptions" \in DOMAIN registry[h]
    /\ t \in DOMAIN registry[h].subscriptions

\* C5 (as the spec states it): a subscribe call that returns its confirmation
\* has constructed and started exactly one consumer of its own, whose run-time
\* state is then whatever the unit has reached (it need not have connected),
\* and has recorded the unit in the registry under its handler and topic.
C5_StartedRecordedReturned ==
    \A c \in DOMAIN calls :
        ( /\ IsSubscribe(c) /\ Done(c)
          /\ calls[c].ret = Subscribed(calls[c].topic_name, calls[c].agent_id) )
        => /\ calls[c].consumer \in threads
           /\ \A d \in DOMAIN calls : d # c => calls[d].consumer # calls[c].consumer
           /\ Recorded(AGENT_REGISTRY, calls[c].agent_id, calls[c].topic_name)

\* C6 (as the spec states it): in every state, whatever the interleaving of
\* the subscribe calls, at most one started unit serves a (handler, topic)
\* pair.
C6_AtMostOneUnitPerPair ==
    \A h \in AgentIds, t \in TopicNames : Cardinality(UnitsFor(h, t)) <= 1

\* C10: every consumer constructed has a handler id that is in the registry,
\* a topic name that is in the catalog, and the binding key of that very
\* topic.
C10_WellFormedUnits ==
    \A k \in DOMAIN consumers :
        /\ consumers[k].agent_id \in DOMAIN AGENT_REGISTRY
        /\ \E i \in 1..Len(ConfiguredTopics) :
              /\ ConfiguredTopics[i].name = consumers[k].topic_name
              /\ ConfiguredTopics[i].binding_key = consumers[k].binding_key

C10_Witness ==
    \E k, l \in DOMAIN consumers :
        /\ consumers[k].topic_name = "poems" /\ consumers[k].binding_key = "poems.*"
        /\ consumers[l].topic_name = "limericks"
        /\ consumers[l].agent_id # consumers[k].agent_id

Msgs == 1..MaxMsgs
UnitIds == DOMAIN units
InQueue(k, m) == \E i \in DOMAIN units[k].queue : units[k].queue[i] = m
Invoked(k, m) == Len(units[k].invocations[m])

CatalogKey(k) ==
    ConfiguredTopics[FindTopic(ConfiguredTopics, calls[k].topic_name)].binding_key

C9_Isolation ==
    /\ [](\A k \in UnitIds :
            (units[k].handler # "running" /\ units[k].connection_state # "stopped")
            => /\ (units[k].connection_state \in {"idle", "disconnected"}
                   /\ units[k].inflight = 0) => ENABLED StartConnect(k)
               /\ units[k].connection_state = "connecting" => ENABLED ConnectSucceeds(k)
               /\ (Connected(k) /\ ~units[k].bound) => ENABLED Bind(k)
               /\ (Ready(k) /\ units[k].inflight = 0 /\ units[k].queue # <<>>)
                  => ENABLED Receive(k)
               /\ (units[k].handler = "ok" /\ units[k].live) => ENABLED Ack(k)
               /\ (units[k].handler = "error" /\ units[k].live) => ENABLED Reject(k))
    /\ \A k \in DOMAIN Subscribers : \A m \in Msgs :
          (Subscribers[k] \in ReliableHandlers)
          => ((k \in UnitIds /\ InQueue(k, m))
                ~> (units[k].acks[m] = 1 \/ ~Ready(k)))

\* unit a's handler is still inside the call for message m while unit b, for
\* another agent on another topic, has acknowledged a message published later
C9_Witness ==
    \E a, b \in UnitIds, m, n \in Msgs :
        /\ consumers[a].agent_id # consumers[b].agent_id
        /\ consumers[a].topic_name # consumers[b].topic_name
        /\ units[a].handler = "running" /\ units[a].inflight = m
        /\ m < n
        /\ units[b].acks[n] = 1

====
